---- MODULE Spec2Model ----
(***************************************************************************)
(* Model of the temporary-mail frontend: the inline-image resolver of      *)
(* EmailDetail (processHtmlContent) and the request / notification         *)
(* handling of EmailDetail and MailboxPage.                                *)
(*                                                                         *)
(* A JavaScript string is a sequence of one-character strings, over the    *)
(* characters up to U+00FF without the backquote.                          *)
(***************************************************************************)
EXTENDS Integers, Sequences, FiniteSets, TLC

VARIABLES
    htmlContent,    \* email.htmlContent handed to processHtmlContent
    attachments,    \* the attachments state handed to processHtmlContent
    rendered        \* what the render put into the DOM (NotRendered before)

rvars == <<htmlContent, attachments, rendered>>

(***************************************************************************)
(* Characters and JavaScript string primitives                             *)
(***************************************************************************)
\* the characters up to U+00FF that toLowerCase changes (A-Z, U+00C0 to
\* U+00D6, U+00D8 to U+00DE), and what it makes of them
UpperChars == <<"A","B","C","D","E","F","G","H","I","J","K","L","M",
                "N","O","P","Q","R","S","T","U","V","W","X","Y","Z",
                "À","Á","Â","Ã","Ä","Å","Æ","Ç","È","É","Ê","Ë","Ì","Í","Î",
                "Ï","Ð","Ñ","Ò","Ó","Ô","Õ","Ö","Ø","Ù","Ú","Û","Ü","Ý","Þ">>
LowerChars == <<"a","b","c","d","e","f","g","h","i","j","k","l","m",
                "n","o","p","q","r","s","t","u","v","w","x","y","z",
                "à","á","â","ã","ä","å","æ","ç","è","é","ê","ë","ì","í","î",
                "ï","ð","ñ","ò","ó","ô","õ","ö","ø","ù","ú","û","ü","ý","þ">>

UpperToLower ==
    [c \in {UpperChars[i] : i \in 1..Len(UpperChars)} |->
        LowerChars[CHOOSE i \in 1..Len(UpperChars) : UpperChars[i] = c]]

lowerChar(c) == IF c \in DOMAIN UpperToLower THEN UpperToLower[c] ELSE c

\* String.prototype.toLowerCase
toLowerCase(s) == [i \in 1..Len(s) |-> lowerChar(s[i])]

\* s.startsWith(p)
startsWith(s, p) ==
    /\ Len(p) <= Len(s)
    /\ \A i \in 1..Len(p) : s[i] = p[i]

\* s.substring(n): the string without its first n characters
substring(s, n) == IF n >= Len(s) THEN <<>> ELSE SubSeq(s, n + 1, Len(s))

\* does p occur in s at (1-based) position i, compared case-insensitively
matchesAtCI(s, i, p) ==
    /\ i >= 1
    /\ i + Len(p) - 1 <= Len(s)
    /\ \A k \in 1..Len(p) : lowerChar(s[i + k - 1]) = lowerChar(p[k])

\* does p occur in s at position i, compared exactly
matchesAt(s, i, p) ==
    /\ i >= 1
    /\ i + Len(p) - 1 <= Len(s)
    /\ \A k \in 1..Len(p) : s[i + k - 1] = p[k]

\* filename.split('.')[0]: the text before the first dot (all of it when
\* there is no dot)
splitDotFirst(s) ==
    IF \E i \in 1..Len(s) : s[i] = "."
    THEN SubSeq(s, 1, (CHOOSE i \in 1..Len(s) :
                          /\ s[i] = "."
                          /\ \A j \in 1..(i - 1) : s[j] # ".") - 1)
    ELSE s

(***************************************************************************)
(* Regular expressions, as far as processHtmlContent uses them.            *)
(* A compiled pattern body is a sequence of atoms                          *)
(*   [any |-> BOOLEAN, ch |-> char, min |-> 0..1, many |-> BOOLEAN,        *)
(*    lazy |-> BOOLEAN]                                                    *)
(* (one literal character or '.', with its quantifier).  The subset        *)
(* covers what `new RegExp` makes of a file name: escapes, '.', the        *)
(* quantifiers + * ? (and their lazy forms) and an unbalanced bracket,     *)
(* which is a SyntaxError.                                                 *)
(***************************************************************************)
\* the characters /[.*+?^${}()|[\]\\]/ names
RegExpSpecials ==
    {".", "*", "+", "?", "^", "$", "{", "}", "(", ")", "|", "[", "]", "\\"}

\* a defective escapeRegExp that returns its argument as it is
escapeRegExpMissing(string) == string

RECURSIVE escapeRegExp(_)
\* string.replace(/[.*+?^${}()|[\]\\]/g, '\\$&')
escapeRegExp(string) ==
    IF string = <<>> THEN <<>>
    ELSE (IF Head(string) \in RegExpSpecials
          THEN <<"\\", Head(string)>>
          ELSE <<Head(string)>>) \o escapeRegExp(Tail(string))

\* what an exception leaves in place of a result
SyntaxError == <<"SyntaxError">>

LitAtom(c) == [any |-> FALSE, ch |-> c, min |-> 1, many |-> FALSE, lazy |-> FALSE]
AnyAtom == [any |-> TRUE, ch |-> ".", min |-> 1, many |-> FALSE, lazy |-> FALSE]

Quantifiers == {"+", "*", "?"}

\* the atom a under quantifier q
Quantified(a, q) ==
    [a EXCEPT !.min = IF q = "+" THEN 1 ELSE 0,
              !.many = (q # "?")]

RECURSIVE compileFrom(_, _, _, _)
\* the atoms of pattern source src from position i on, appended to acc;
\* quantifiable tells whether the last atom of acc may still take a
\* quantifier.  SyntaxError when the source is malformed.
compileFrom(src, i, acc, quantifiable) ==
    IF i > Len(src) THEN acc
    ELSE LET c == src[i] IN
         IF c = "\\"
         THEN IF i = Len(src) THEN SyntaxError
              ELSE compileFrom(src, i + 2, Append(acc, LitAtom(src[i + 1])), TRUE)
         ELSE IF c \in Quantifiers
         THEN IF quantifiable
              THEN compileFrom(src, i + 1,
                       [acc EXCEPT ![Len(acc)] = Quantified(acc[Len(acc)], c)],
                       FALSE)
              ELSE IF c = "?" /\ acc # <<>> /\ ~acc[Len(acc)].lazy
                        /\ (acc[Len(acc)].many \/ acc[Len(acc)].min = 0)
              THEN compileFrom(src, i + 1,
                       [acc EXCEPT ![Len(acc)].lazy = TRUE], FALSE)
              ELSE SyntaxError
         ELSE IF c \in {"(", ")", "["}
         THEN SyntaxError
         ELSE IF c = "."
         THEN compileFrom(src, i + 1, Append(acc, AnyAtom), TRUE)
         ELSE compileFrom(src, i + 1, Append(acc, LitAtom(c)), TRUE)

\* does atom a accept character c (flag i: letters compare without case)
atomAccepts(a, c) ==
    IF a.any THEN c \notin {"\n", "\r"}
    ELSE lowerChar(a.ch) = lowerChar(c)

RECURSIVE runLength(_, _, _, _)
\* how many characters of s from position pos on atom a accepts in a row,
\* at most limit
runLength(a, s, pos, limit) ==
    IF limit = 0 \/ pos > Len(s) \/ ~atomAccepts(a, s[pos]) THEN 0
    ELSE 1 + runLength(a, s, pos + 1, limit - 1)

RECURSIVE matchAtoms(_, _, _, _)
RECURSIVE matchCounts(_, _, _, _, _)
\* the positions right after a match of atoms k.. of `atoms` that starts at
\* pos, in the order backtracking tries them
matchAtoms(atoms, k, s, pos) ==
    IF k > Len(atoms) THEN <<pos>>
    ELSE LET a == atoms[k]
             most == runLength(a, s, pos, IF a.many THEN Len(s) ELSE 1)
             counts == IF most < a.min THEN <<>>
                       ELSE IF a.lazy
                       THEN [n \in 1..(most - a.min + 1) |-> a.min + n - 1]
                       ELSE [n \in 1..(most - a.min + 1) |-> most - n + 1]
         IN  matchCounts(atoms, k, s, pos, counts)

matchCounts(atoms, k, s, pos, counts) ==
    IF counts = <<>> THEN <<>>
    ELSE matchAtoms(atoms, k + 1, s, pos + Head(counts))
            \o matchCounts(atoms, k, s, pos, Tail(counts))

(***************************************************************************)
(* Attachment URLs                                                         *)
(***************************************************************************)
\* config's API_BASE_URL: the API is served from the page's own origin
API_BASE_URL == <<>>

ApiAttachmentsPath ==
    <<"/","a","p","i","/","a","t","t","a","c","h","m","e","n","t","s","/">>
DownloadQuery == <<"?","d","o","w","n","l","o","a","d","=","t","r","u","e">>

\* `${API_BASE_URL}/api/attachments/${attachmentId}${download ? '?download=true' : ''}`
getAttachmentUrl(attachmentId, download) ==
    API_BASE_URL \o ApiAttachmentsPath \o attachmentId
        \o (IF download THEN DownloadQuery ELSE <<>>)

(***************************************************************************)
(* processHtmlContent, first pass: the <img> tags                          *)
(***************************************************************************)
ImagePrefix == <<"i","m","a","g","e","/">>
CidPrefix == <<"c","i","d",":">>
ImgOpen == <<"<","i","m","g">>
SrcEq == <<"s","r","c","=">>
QuoteChars == {"\"", "'"}

\* a defective filter that keeps every attachment
imageAttachmentsOfUnfiltered(atts) == atts

\* attachments.filter(att => att.mimeType.startsWith('image/'))
imageAttachmentsOf(atts) ==
    SelectSeq(atts, LAMBDA att : startsWith(att.mimeType, ImagePrefix))

\* the smallest member of a non-empty set of integers
Least(S) == CHOOSE x \in S : \A y \in S : x <= y

\* /src=["']([^"']+)["']/ at position p of tag: the position of the closing
\* quote, 0 when the pattern does not match there.  ci is the i flag.
srcMatchEnd(tag, p, ci) ==
    IF /\ (IF ci THEN matchesAtCI(tag, p, SrcEq) ELSE matchesAt(tag, p, SrcEq))
       /\ p + 4 <= Len(tag)
       /\ tag[p + 4] \in QuoteChars
    THEN LET closers == {q \in (p + 5)..Len(tag) : tag[q] \in QuoteChars}
         IN  IF closers = {} \/ Least(closers) = p + 5 THEN 0
             ELSE Least(closers)
    ELSE 0

\* the leftmost position where /src=["']([^"']+)["']/ matches, 0 when none
srcMatchStart(tag, ci) ==
    LET starts == {p \in 1..Len(tag) : srcMatchEnd(tag, p, ci) # 0}
    IN  IF starts = {} THEN 0 ELSE Least(starts)

\* the predicate of imageAttachments.find(...)
cidMatches(cidValue, att) ==
    LET filename == att.filename IN
    \/ cidValue = filename
    \/ cidValue = att.id
    \/ cidValue = toLowerCase(filename)
    \/ toLowerCase(cidValue) = toLowerCase(filename)
    \/ cidValue = splitDotFirst(filename)
    \/ toLowerCase(cidValue) = toLowerCase(splitDotFirst(filename))

\* Array.prototype.find: the index of the first element that satisfies the
\* predicate, 0 when there is none
findIndex(imageAttachments, cidValue) ==
    LET hits == {i \in 1..Len(imageAttachments) :
                    cidMatches(cidValue, imageAttachments[i])}
    IN  IF hits = {} THEN 0 ELSE Least(hits)

RECURSIVE getSubstitution(_, _, _, _)
\* what String.prototype.replace makes of a replacement string for a
\* pattern without capture groups: "$$" is a dollar sign, "$&" the matched
\* text, "$'" the text after the match; any other dollar sign stands for
\* itself.  (A dollar sign before a backquote stands for the text before
\* the match; a string of this module cannot hold a backquote, so
\* `before` is used by no input.)
getSubstitution(replacement, matched, before, after) ==
    IF replacement = <<>> THEN <<>>
    ELSE IF /\ Head(replacement) = "$"
            /\ Len(replacement) >= 2
            /\ replacement[2] \in {"$", "&", "'"}
    THEN (IF replacement[2] = "$" THEN <<"$">>
          ELSE IF replacement[2] = "&" THEN matched
          ELSE after)
            \o getSubstitution(SubSeq(replacement, 3, Len(replacement)),
                               matched, before, after)
    ELSE <<Head(replacement)>>
            \o getSubstitution(Tail(replacement), matched, before, after)

\* imgTag.replace(/src=["'][^"']+["']/, `src="${attachmentUrl}"`): the
\* first match of the pattern, which has no i flag, gives way to the
\* replacement string
replaceSrc(imgTag, attachmentUrl) ==
    LET p == srcMatchStart(imgTag, FALSE) IN
    IF p = 0 THEN imgTag
    ELSE LET e == srcMatchEnd(imgTag, p, FALSE)
             before == SubSeq(imgTag, 1, p - 1)
             after == SubSeq(imgTag, e + 1, Len(imgTag))
         IN  before
                \o getSubstitution(SrcEq \o <<"\"">> \o attachmentUrl \o <<"\"">>,
                                   SubSeq(imgTag, p, e), before, after)
                \o after

\* the callback of processedHtml.replace(/<img[^>]*>/gi, ...)
resolveImgTag(imgTag, imageAttachments) ==
    LET p == srcMatchStart(imgTag, TRUE) IN
    IF p = 0 THEN imgTag
    ELSE LET srcValue == SubSeq(imgTag, p + 5, srcMatchEnd(imgTag, p, TRUE) - 1) IN
         IF startsWith(toLowerCase(srcValue), CidPrefix)
         THEN LET cidValue == substring(srcValue, 4)
                  m == findIndex(imageAttachments, cidValue)
              IN  IF m # 0
                  THEN replaceSrc(imgTag,
                           getAttachmentUrl(imageAttachments[m].id, TRUE))
                  ELSE imgTag
         ELSE imgTag

\* /<img[^>]*>/i at position i of s: the position of the closing '>', 0
\* when the pattern does not match there
imgTagEnd(s, i) ==
    IF matchesAtCI(s, i, ImgOpen)
    THEN LET closers == {j \in (i + 4)..Len(s) : s[j] = ">"}
         IN  IF closers = {} THEN 0 ELSE Least(closers)
    ELSE 0

RECURSIVE replaceImgTags(_, _, _)
\* processedHtml.replace(/<img[^>]*>/gi, callback), from position i on:
\* every match, left to right and without overlap, gives way to what the
\* callback returns for it
replaceImgTags(s, i, imageAttachments) ==
    LET starts == {p \in i..Len(s) : imgTagEnd(s, p) # 0} IN
    IF starts = {} THEN SubSeq(s, i, Len(s))
    ELSE LET p == Least(starts)
             e == imgTagEnd(s, p)
         IN  SubSeq(s, i, p - 1)
                \o resolveImgTag(SubSeq(s, p, e), imageAttachments)
                \o replaceImgTags(s, e + 1, imageAttachments)

(***************************************************************************)
(* processHtmlContent, second pass: cid references outside <img> tags      *)
(***************************************************************************)
\* (?<!<img[^>]*) fails at position p: some "<img" lies before p with no
\* '>' between it and p
precededByOpenImg(s, p) ==
    \E q \in 1..(p - 4) :
        /\ matchesAtCI(s, q, ImgOpen)
        /\ \A k \in (q + 4)..(p - 1) : s[k] # ">"

\* (?![^<]*>) fails at position e (the first position after the match):
\* a '>' follows with no '<' before it
followedByTagClose(s, e) ==
    \E j \in e..Len(s) :
        /\ s[j] = ">"
        /\ \A k \in e..(j - 1) : s[k] # "<"

\* the sources of the three bodies of cidPatterns for a file name, between
\* the lookbehind and the lookahead: cid:NAME, cid:"NAME", cid:'NAME'
cidPatternSources(filename) ==
    << CidPrefix \o filename,
       CidPrefix \o <<"\"">> \o filename \o <<"\"">>,
       CidPrefix \o <<"'">> \o filename \o <<"'">> >>

\* new RegExp(`(?<!<img[^>]*)${source}(?![^<]*>)`, 'gi'): the compiled
\* body, or SyntaxError
newCidRegExp(source) == compileFrom(source, 1, <<>>, FALSE)

\* one attempt of the pattern at position p of s: the first position after
\* the match, 0 when there is no match at p.  (The lookbehind is a pure
\* test, so it is evaluated only where the body matches.)
execAt(atoms, s, p) ==
    LET bodyEnds == matchAtoms(atoms, 1, s, p) IN
    IF bodyEnds = <<>> THEN 0
    ELSE IF precededByOpenImg(s, p) THEN 0
    ELSE LET ends == SelectSeq(bodyEnds, LAMBDA e : ~followedByTagClose(s, e))
         IN  IF ends = <<>> THEN 0 ELSE Head(ends)

\* the leftmost position from i on where the pattern matches, 0 when
\* there is none
firstMatchFrom(atoms, s, i) ==
    LET hits == {p \in i..Len(s) :
                    /\ atoms[1].min = 0 \/ atomAccepts(atoms[1], s[p])
                    /\ execAt(atoms, s, p) > p}
    IN  IF hits = {} THEN 0 ELSE Least(hits)

RECURSIVE replaceAll(_, _, _, _)
\* processedHtml.replace(pattern, attachmentUrl) with the g flag, from
\* position i on: every match, left to right and without overlap, gives
\* way to the replacement string
replaceAll(s, i, atoms, attachmentUrl) ==
    LET p == firstMatchFrom(atoms, s, i) IN
    IF p = 0 THEN SubSeq(s, i, Len(s))
    ELSE LET e == execAt(atoms, s, p) IN
         SubSeq(s, i, p - 1)
            \o getSubstitution(attachmentUrl, SubSeq(s, p, e - 1),
                               SubSeq(s, 1, p - 1), SubSeq(s, e, Len(s)))
            \o replaceAll(s, e, atoms, attachmentUrl)

RECURSIVE applyPatterns(_, _, _, _)
\* cidPatterns.forEach(pattern => processedHtml = processedHtml.replace(...))
\* from pattern k on
applyPatterns(processedHtml, cidPatterns, k, attachmentUrl) ==
    IF k > Len(cidPatterns) THEN processedHtml
    ELSE applyPatterns(
             replaceAll(processedHtml, 1, cidPatterns[k], attachmentUrl),
             cidPatterns, k + 1, attachmentUrl)

RECURSIVE replaceCidReferences(_, _, _)
\* imageAttachments.forEach(attachment => ...) from attachment n on;
\* SyntaxError when one of the three patterns cannot be built (they are
\* built before the first is used, and the exception ends the call)
replaceCidReferences(processedHtml, imageAttachments, n) ==
    IF n > Len(imageAttachments) THEN processedHtml
    ELSE LET attachment == imageAttachments[n]
             attachmentUrl == getAttachmentUrl(attachment.id, TRUE)
             filename == attachment.filename
             sources == cidPatternSources(escapeRegExp(filename))
             cidPatterns == [k \in 1..Len(sources) |-> newCidRegExp(sources[k])]
         IN  IF \E k \in 1..Len(cidPatterns) : cidPatterns[k] = SyntaxError
             THEN SyntaxError
             ELSE replaceCidReferences(
                      applyPatterns(processedHtml, cidPatterns, 1, attachmentUrl),
                      imageAttachments, n + 1)

(***************************************************************************)
(* processHtmlContent                                                      *)
(***************************************************************************)
\* a defective early return that yields the empty string
processHtmlContentBlank(html, atts) ==
    IF html = <<>> \/ Len(atts) = 0 THEN <<>>
    ELSE replaceCidReferences(
             replaceImgTags(html, 1, imageAttachmentsOf(atts)),
             imageAttachmentsOf(atts), 1)

processHtmlContent(html, atts) ==
    IF html = <<>> \/ Len(atts) = 0 THEN html
    ELSE LET imageAttachments == imageAttachmentsOf(atts) IN
         IF Len(imageAttachments) = 0 THEN html
         ELSE replaceCidReferences(
                  replaceImgTags(html, 1, imageAttachments),
                  imageAttachments, 1)

(***************************************************************************)
(* The pages: MailboxPage with its EmailDetail child.                      *)
(*                                                                         *)
(* Every run of an async function is a record of `calls` that waits for a  *)
(* response; the code between two awaits is one step.  A timer is held by  *)
(* the ref that stores its id; time passes in seconds (Tick).              *)
(***************************************************************************)
VARIABLES
    pageMounted,            \* MailboxPage is mounted
    mailbox,                \* MailboxPage: mailbox ("none" | "loaded")
    pageLoading,            \* MailboxPage: isLoading
    pageError,              \* MailboxPage: errorMessage
    pageSuccess,            \* MailboxPage: successMessage
    selectedEmail,          \* the page's selectedEmail, EmailDetail's emailId
    dInst,                  \* number of the EmailDetail instance (0: none yet)
    email,                  \* EmailDetail: email
    attList,                \* EmailDetail: attachments
    isLoading,              \* EmailDetail: isLoading
    isLoadingAttachments,   \* EmailDetail: isLoadingAttachments
    errorMessage,           \* EmailDetail: errorMessage
    successMessage,         \* EmailDetail: successMessage
    effectPending,          \* the runs of EmailDetail's fetch effect that are due
    emailCache,             \* MailboxContext: emailCache
    calls,                  \* the async calls that wait for a response
    timers,                 \* errorTimeoutRef / successTimeoutRef of each component
    lastEvent               \* the response the last step handled (NoEvent otherwise)

pvars == <<pageMounted, mailbox, pageLoading, pageError, pageSuccess>>
dvars == <<email, attList, isLoading, isLoadingAttachments, errorMessage,
           successMessage>>
uvars == <<pageMounted, mailbox, pageLoading, pageError, pageSuccess,
           selectedEmail, dInst, email, attList, isLoading,
           isLoadingAttachments, errorMessage, successMessage, effectPending,
           emailCache, calls, timers, lastEvent>>
vars == <<htmlContent, attachments, rendered, uvars>>

\* the most EmailDetail instances mounted one after the other
MaxMounts == 2
\* the most requests and timers under way when the user or the parent starts
\* something new
MaxPending == 2

\* window.setTimeout(..., 3000), in seconds
ErrorDelay == 3
\* window.setTimeout(..., 2000), in seconds
SuccessDelay == 2

None == "none"
EmailIds == {"e1", "e2"}

\* the server's data: data.email.hasAttachments of each email
HasAttachments(id) == id = "e1"
\* the server's data: what data.attachments of the attachment request of
\* an email can be.  An Attachment carries the emailId of its email, so a
\* list is told by the email it belongs to; the list may come back empty
\* also for an email whose hasAttachments is true.
AttachmentLists(id) == IF HasAttachments(id) THEN {<<>>, <<id>>} ELSE {<<>>}

\* what a request can come back with: a 2xx with success true; a 404; any
\* other non-2xx status; a rejected fetch; a body that is no JSON; a body
\* with success false
Ok == "ok"
NotFound == "404"
Failures == {"http", "network", "parse", "unsuccessful"}
Outcomes == {Ok, NotFound} \cup Failures
\* how the promise of handleMailboxNotFound() can settle
Recovered == "recovered"
Rejected == "rejected"

\* t(key): the translation of a message key
t(key) == <<"t", key>>
\* String(error): the raw text of the error a request failed with
RawError(outcome) == <<"raw", outcome>>
Null == <<"null">>

\* a timer: what its callback does, the seconds left, and the emailId its
\* callback closed over when that matters (the onClose of a delete)
NoTimer == [kind |-> "none", left |-> 0, id |-> "none"]
Timer(kind, delay) == [kind |-> kind, left |-> delay, id |-> "none"]

PageErrorRef == [owner |-> "page", inst |-> 0, name |-> "error"]
PageSuccessRef == [owner |-> "page", inst |-> 0, name |-> "success"]
DetailErrorRef(i) == [owner |-> "detail", inst |-> i, name |-> "error"]
DetailSuccessRef(i) == [owner |-> "detail", inst |-> i, name |-> "success"]
TimerRefs ==
    {PageErrorRef, PageSuccessRef}
        \cup {DetailErrorRef(i) : i \in 1..MaxMounts}
        \cup {DetailSuccessRef(i) : i \in 1..MaxMounts}

\* the EmailDetail instance i is the mounted one
DetailLive(i) == pageMounted /\ selectedEmail # None /\ dInst = i
DetailMounted == pageMounted /\ selectedEmail # None

NoEntry == [email |-> None, attachments |-> <<>>]
NoEvent == [fn |-> None, outcome |-> None, live |-> FALSE, data |-> <<>>]
\* the response (or settled call) that a step handles; live: the component
\* that made the call is still mounted; data: data.attachments of a
\* successful attachment response
EventWith(c, outcome, data) ==
    [fn |-> c.fn, outcome |-> outcome,
     live |-> IF c.inst = 0 THEN pageMounted ELSE DetailLive(c.inst),
     data |-> data]
Event(c, outcome) == EventWith(c, outcome, <<>>)

\* a run of an async function that waits at pc for its response; n tells
\* runs of the same function with the same arguments apart
Call(fn, pc, id, inst, n) ==
    [fn |-> fn, pc |-> pc, id |-> id, inst |-> inst, n |-> n]

NotRendered == <<"NotRendered">>

\* the resolver's variables while the pages run
ResolverIdle ==
    /\ htmlContent = <<>>
    /\ attachments = <<>>
    /\ rendered = NotRendered

\* useState's initial values in EmailDetail
DetailFresh ==
    /\ email' = None
    /\ attList' = <<>>
    /\ isLoading' = TRUE
    /\ isLoadingAttachments' = FALSE
    /\ errorMessage' = Null
    /\ successMessage' = Null

\* MailboxPage right after its first render and effects: the lookup of the
\* mailbox is under way, no email is selected
UInit ==
    /\ ResolverIdle
    /\ pageMounted = TRUE
    /\ mailbox = None
    /\ pageLoading = TRUE
    /\ pageError = Null
    /\ pageSuccess = Null
    /\ selectedEmail = None
    /\ dInst = 0
    /\ email = None
    /\ attList = <<>>
    /\ isLoading = TRUE
    /\ isLoadingAttachments = FALSE
    /\ errorMessage = Null
    /\ successMessage = Null
    /\ effectPending = 0
    /\ emailCache = [id \in EmailIds |-> NoEntry]
    /\ calls = {Call("fetchMailbox", "mailbox", None, 0, 1)}
    /\ timers = [r \in TimerRefs |-> NoTimer]
    /\ lastEvent = NoEvent

\* the pages while the resolver is checked: the mailbox is loaded, the
\* first EmailDetail is mounted on the email id, whose fetch is complete:
\* the email and its attachment list are in the state and in the cache,
\* nothing is loading, no request and no timer is under way
EmailOnShow(id, list) ==
    /\ pageMounted = TRUE
    /\ mailbox = "loaded"
    /\ pageLoading = FALSE
    /\ pageError = Null
    /\ pageSuccess = Null
    /\ selectedEmail = id
    /\ dInst = 1
    /\ email = id
    /\ attList = list
    /\ isLoading = FALSE
    /\ isLoadingAttachments = FALSE
    /\ errorMessage = Null
    /\ successMessage = Null
    /\ effectPending = 0
    /\ emailCache = [k \in EmailIds |->
                       IF k = id THEN [email |-> id, attachments |-> list]
                       ELSE NoEntry]
    /\ calls = {}
    /\ timers = [r \in TimerRefs |-> NoTimer]
    /\ lastEvent = NoEvent


\* if (ref.current) window.clearTimeout(ref.current); ref.current =
\* window.setTimeout(callback, delay)
resetTimerKeepsPending(tm, ref, kind, delay) ==
    IF tm[ref].kind # None THEN tm ELSE [tm EXCEPT ![ref] = Timer(kind, delay)]
resetTimer(tm, ref, kind, delay) == [tm EXCEPT ![ref] = Timer(kind, delay)]

\* the cleanup of the first effect of a component: both refs' timers are
\* cleared
clearRefs(tm, refs) == [r \in TimerRefs |-> IF r \in refs THEN NoTimer ELSE tm[r]]

DetailRefs(i) == IF i = 0 THEN {} ELSE {DetailErrorRef(i), DetailSuccessRef(i)}
PageRefs == {PageErrorRef, PageSuccessRef}

\* a new record for `calls`, with the least n that is free
NewCall(fn, pc, id, inst) ==
    LET free == {k \in 1..(Cardinality(calls) + 1) :
                    Call(fn, pc, id, inst, k) \notin calls}
    IN  Call(fn, pc, id, inst, CHOOSE k \in free : \A j \in free : k <= j)

\* the timers that wait to fire
PendingTimers == {r \in TimerRefs : timers[r].kind # None}

\* the user and the parent start something new only while fewer than
\* MaxPending requests and timers are under way
HasRoom == Cardinality(calls) + Cardinality(PendingTimers) < MaxPending

cachedNever(cache, id) == FALSE
\* if (emailCache[emailId]) in fetchEmail
cached(cache, id) == cache[id] # NoEntry

\* a failed page request that makes a mounted EmailDetail fetch again is
\* answered only while at most MaxPending requests and timers are under way
RefetchFits ==
    (DetailMounted /\ ~cached(emailCache, selectedEmail)) =>
        Cardinality(calls) + Cardinality(PendingTimers) <= MaxPending

\* a rejected handleMailboxNotFound() is handled only while at most
\* MaxPending requests and timers are under way
RejectionFits == Cardinality(calls) + Cardinality(PendingTimers) <= MaxPending

\* the address changes under a mounted EmailDetail that will fetch twice
\* only while two fewer requests and timers are under way
DoubleRefetchFits ==
    (DetailMounted /\ ~cached(emailCache, selectedEmail) /\ ~pageLoading) =>
        Cardinality(calls) + Cardinality(PendingTimers) + 2 <= MaxPending

\* how many runs of the fetch effect a render causes
Runs(rendersAgain) == IF rendersAgain THEN 1 ELSE 0

\* the fetch effect of EmailDetail runs before anything else happens
EffectDue == effectPending > 0 /\ DetailMounted

\* response.status === 404 in fetchEmail
emailNotFound(outcome) == outcome = NotFound
\* response.status === 404 in fetchAttachments
attachmentsNotFound(outcome) == outcome = NotFound
\* response.status === 404 in fetchMailbox
mailboxNotFound(outcome) == outcome = NotFound

\* MailboxContext.addToEmailCache(emailId, email, attachments)
addToEmailCache(cache, id, mail, atts) ==
    [cache EXCEPT ![id] = [email |-> mail, attachments |-> atts]]

\* what MailboxContext.handleMailboxNotFound leaves of the email cache
invalidatedCache == [id \in EmailIds |-> NoEntry]

\* EmailDetail unmounts: its state is gone, its cleanup clears its timers
DetailUnmounts(tm) ==
    /\ selectedEmail' = None
    /\ DetailFresh
    /\ effectPending' = 0
    /\ timers' = clearRefs(tm, DetailRefs(dInst))

\* onClose(), that is setSelectedEmail(null) of the page, after the timers
\* have become tm
OnClose(tm) ==
    IF DetailMounted
    THEN DetailUnmounts(tm)
    ELSE /\ timers' = tm
         /\ UNCHANGED <<selectedEmail, dvars, effectPending>>

\* the step changes a state of MailboxPage: the page renders again and
\* hands EmailDetail a new onClose, a dependency of its fetch effect
PageStateChanges ==
    <<mailbox, pageLoading, pageError, pageSuccess>>' #
        <<mailbox, pageLoading, pageError, pageSuccess>>

(***************************************************************************)
(* The user and the parent                                                 *)
(***************************************************************************)
\* EmailList's onSelectEmail(id), offered once the page is not loading:
\* setSelectedEmail(id).  From no selection
\* a new EmailDetail mounts; otherwise the mounted one gets a new emailId.
SelectEmail(id) ==
    /\ pageMounted /\ ~EffectDue /\ HasRoom
    /\ ~pageLoading
    /\ id # selectedEmail
    /\ IF selectedEmail = None
       THEN /\ dInst < MaxMounts
            /\ dInst' = dInst + 1
            /\ DetailFresh
       ELSE UNCHANGED <<dInst, dvars>>
    /\ selectedEmail' = id
    /\ effectPending' = 1
    /\ lastEvent' = NoEvent
    /\ UNCHANGED <<rvars, pvars, emailCache, calls, timers>>

\* the page renders again for a reason outside it (its context or the
\* language changed): EmailDetail gets a new onClose and a new t,
\* dependencies of its fetch effect
ParentRerender ==
    /\ DetailMounted /\ ~EffectDue /\ HasRoom
    /\ effectPending' = 1
    /\ lastEvent' = NoEvent
    /\ UNCHANGED <<rvars, pvars, selectedEmail, dInst, dvars, emailCache, calls, timers>>

\* the page unmounts, and EmailDetail with it: both cleanups clear timers
PageUnmounts(tm) ==
    /\ pageMounted' = FALSE
    /\ selectedEmail' = None
    /\ DetailFresh
    /\ effectPending' = 0
    /\ timers' = clearRefs(tm, PageRefs \cup
                     (IF selectedEmail # None THEN DetailRefs(dInst) ELSE {}))

\* the user leaves the page
LeavePage ==
    /\ pageMounted /\ ~EffectDue
    /\ PageUnmounts(timers)
    /\ lastEvent' = NoEvent
    /\ UNCHANGED <<rvars, mailbox, pageLoading, pageError, pageSuccess, dInst,
                   emailCache, calls>>

(***************************************************************************)
(* EmailDetail: fetchEmail and fetchAttachments                            *)
(***************************************************************************)
\* the effect on [emailId, t, emailCache, addToEmailCache,
\* handleMailboxNotFound, onClose]: fetchEmail up to its first await
RunEffect ==
    /\ EffectDue
    /\ effectPending' = effectPending - 1
    /\ errorMessage' = Null
    /\ successMessage' = Null
    /\ IF cached(emailCache, selectedEmail)
       THEN /\ email' = emailCache[selectedEmail].email
            /\ attList' = emailCache[selectedEmail].attachments
            /\ isLoading' = FALSE
            /\ calls' = calls
       ELSE /\ isLoading' = TRUE
            /\ calls' = calls \cup {NewCall("fetchEmail", "email", selectedEmail, dInst)}
            /\ UNCHANGED <<email, attList>>
    /\ lastEvent' = NoEvent
    /\ UNCHANGED <<rvars, pvars, selectedEmail, dInst, isLoadingAttachments,
                   emailCache, timers>>

\* the catch block of fetchEmail, then its finally
FetchEmailCatch(c) ==
    /\ IF DetailLive(c.inst)
       THEN /\ errorMessage' = t("email.fetchFailed")
            /\ isLoading' = FALSE
       ELSE UNCHANGED <<errorMessage, isLoading>>
    /\ timers' = resetTimer(timers, DetailErrorRef(c.inst), "clearError", ErrorDelay)
    /\ UNCHANGED <<email, attList, isLoadingAttachments, successMessage,
                   selectedEmail>>

\* the catch block of fetchAttachments (console.error), its finally, then
\* the finally of the fetchEmail that awaited it
FetchAttachmentsCatch(c) ==
    /\ IF DetailLive(c.inst)
       THEN /\ isLoadingAttachments' = FALSE
            /\ isLoading' = FALSE
       ELSE UNCHANGED <<isLoadingAttachments, isLoading>>
    /\ UNCHANGED <<email, attList, errorMessage, successMessage,
                   selectedEmail, timers>>

\* a request of fetchEmail failed
FetchEmailFailed(c) ==
    /\ FetchEmailCatch(c)
    /\ UNCHANGED <<effectPending, emailCache>>

\* if (data.email.hasAttachments): the attachment list is fetched before the
\* email is cached
fetchesAttachmentsNever(id) == FALSE
fetchesAttachments(id) == HasAttachments(id)

\* the response to GET /api/emails/{id} arrives
EmailResponse(c, outcome) ==
    /\ ~EffectDue
    /\ c \in calls /\ c.pc = "email"
    /\ lastEvent' = Event(c, outcome)
    /\ IF outcome = Ok
       THEN IF fetchesAttachments(c.id)
            THEN \* setEmail; fetchAttachments up to its await
                 /\ calls' = (calls \ {c}) \cup
                        {NewCall("fetchAttachments", "attachments", c.id, c.inst)}
                 /\ IF DetailLive(c.inst)
                    THEN /\ email' = c.id
                         /\ isLoadingAttachments' = TRUE
                    ELSE UNCHANGED <<email, isLoadingAttachments>>
                 /\ UNCHANGED <<attList, isLoading, errorMessage, successMessage,
                                selectedEmail, effectPending, emailCache, timers>>
            ELSE \* setEmail; addToEmailCache(emailId, data.email, []); finally
                 /\ calls' = calls \ {c}
                 /\ emailCache' = addToEmailCache(emailCache, c.id, c.id, <<>>)
                 /\ effectPending' = Runs(DetailMounted)
                 /\ IF DetailLive(c.inst)
                    THEN /\ email' = c.id
                         /\ isLoading' = FALSE
                    ELSE UNCHANGED <<email, isLoading>>
                 /\ UNCHANGED <<attList, isLoadingAttachments, errorMessage,
                                successMessage, selectedEmail, timers>>
       ELSE IF emailNotFound(outcome)
       THEN \* handleMailboxNotFound() is called and awaited
            /\ calls' = (calls \ {c}) \cup
                   {NewCall("fetchEmail", "recovery", c.id, c.inst)}
            /\ UNCHANGED <<dvars, selectedEmail, effectPending, emailCache, timers>>
       ELSE /\ calls' = calls \ {c}
            /\ FetchEmailFailed(c)
    /\ UNCHANGED <<rvars, pvars, dInst>>

\* the response to GET /api/emails/{id}/attachments arrives
AttachmentsResponse(c, outcome, list) ==
    /\ ~EffectDue
    /\ c \in calls /\ c.pc = "attachments"
    /\ list \in AttachmentLists(c.id)
    /\ outcome # Ok => list = <<>>
    /\ lastEvent' = EventWith(c, outcome, list)
    /\ IF outcome = Ok
       THEN \* setAttachments(data.attachments); addToEmailCache(emailId,
            \* emailData, data.attachments); both finally blocks
            /\ calls' = calls \ {c}
            /\ emailCache' = addToEmailCache(emailCache, c.id, c.id, list)
            /\ effectPending' = Runs(DetailMounted)
            /\ IF DetailLive(c.inst)
               THEN /\ attList' = list
                    /\ isLoadingAttachments' = FALSE
                    /\ isLoading' = FALSE
               ELSE UNCHANGED <<attList, isLoadingAttachments, isLoading>>
            /\ UNCHANGED <<email, errorMessage, successMessage, selectedEmail, timers>>
       ELSE IF attachmentsNotFound(outcome)
       THEN /\ calls' = (calls \ {c}) \cup
                   {NewCall("fetchAttachments", "recovery", c.id, c.inst)}
            /\ UNCHANGED <<dvars, selectedEmail, effectPending, emailCache, timers>>
       ELSE \* catch: console.error; both finally blocks
            /\ calls' = calls \ {c}
            /\ FetchAttachmentsCatch(c)
            /\ UNCHANGED <<effectPending, emailCache>>
    /\ UNCHANGED <<rvars, pvars, dInst>>

\* the promise of handleMailboxNotFound() has been fulfilled: the cache is
\* invalidated; onClose(), return, finally
RecoveryDone(c) ==
    /\ ~EffectDue
    /\ c \in calls /\ c.pc = "recovery"
    /\ lastEvent' = Event(c, Recovered)
    /\ calls' = calls \ {c}
    /\ emailCache' = invalidatedCache
    /\ OnClose(timers)
    /\ UNCHANGED <<rvars, pvars, dInst>>

\* the promise of handleMailboxNotFound() has been rejected, before
\* (cleared false) or after (cleared true) it invalidated the cache.  The
\* await of fetchEmail stands inside its try: its catch and finally run.
\* The await of fetchAttachments stands inside its try: its catch logs the
\* error, and both finally blocks run.  onClose() is not reached.  A cache
\* that was set anew is a changed dependency of the fetch effect.
RecoveryRejected(c, cleared) ==
    /\ ~EffectDue
    /\ c \in calls /\ c.pc = "recovery"
    /\ RejectionFits
    /\ lastEvent' = Event(c, Rejected)
    /\ calls' = calls \ {c}
    /\ emailCache' = IF cleared THEN invalidatedCache ELSE emailCache
    /\ IF c.fn = "fetchEmail"
       THEN FetchEmailCatch(c)
       ELSE FetchAttachmentsCatch(c)
    /\ effectPending' = Runs(DetailMounted /\ cleared)
    /\ UNCHANGED <<rvars, pvars, dInst>>

(***************************************************************************)
(* EmailDetail: handleDelete                                               *)
(***************************************************************************)
\* the delete button (rendered once an email is shown): handleDelete up to
\* its await
StartDelete ==
    /\ DetailMounted /\ ~EffectDue /\ HasRoom
    /\ ~isLoading /\ email # None
    /\ errorMessage' = Null
    /\ successMessage' = Null
    /\ calls' = calls \cup {NewCall("handleDelete", "delete", selectedEmail, dInst)}
    /\ lastEvent' = NoEvent
    /\ UNCHANGED <<rvars, pvars, selectedEmail, dInst, email, attList, isLoading,
                   isLoadingAttachments, effectPending, emailCache,
                   timers>>

\* the response to DELETE /api/emails/{id} arrives
DeleteResponse(c, outcome) ==
    /\ ~EffectDue
    /\ c \in calls /\ c.pc = "delete"
    /\ lastEvent' = Event(c, outcome)
    /\ calls' = calls \ {c}
    /\ IF outcome = Ok
       THEN /\ successMessage' =
                  IF DetailLive(c.inst) THEN t("email.deleteSuccess") ELSE successMessage
            /\ timers' = [resetTimer(timers, DetailSuccessRef(c.inst), "close",
                                      SuccessDelay)
                              EXCEPT ![DetailSuccessRef(c.inst)].id = c.id]
            /\ UNCHANGED errorMessage
       ELSE /\ errorMessage' =
                  IF DetailLive(c.inst) THEN t("email.deleteFailed") ELSE errorMessage
            /\ timers' = resetTimer(timers, DetailErrorRef(c.inst), "clearError", ErrorDelay)
            /\ UNCHANGED successMessage
    /\ UNCHANGED <<rvars, pvars, selectedEmail, dInst, email, attList, isLoading,
                   isLoadingAttachments, effectPending, emailCache>>

(***************************************************************************)
(* MailboxPage: fetchMailbox and handleDeleteMailbox                       *)
(***************************************************************************)
\* the address of the route changes: the page renders again and the effect
\* on [address, navigate, t] runs fetchMailbox up to its await; its
\* setIsLoading(true) renders the page once more when isLoading was false,
\* so a mounted EmailDetail's effect runs once per render
ChangeAddress ==
    /\ pageMounted /\ ~EffectDue /\ HasRoom /\ DoubleRefetchFits
    /\ pageLoading' = TRUE
    /\ calls' = calls \cup {NewCall("fetchMailbox", "mailbox", None, 0)}
    /\ effectPending' = (IF ~DetailMounted THEN 0 ELSE IF pageLoading THEN 1 ELSE 2)
    /\ lastEvent' = NoEvent
    /\ UNCHANGED <<rvars, pageMounted, mailbox, pageError, pageSuccess,
                   selectedEmail, dInst, dvars, emailCache, timers>>

\* the response to GET /api/mailboxes/{address} arrives (setMailbox stores
\* a new object each time)
MailboxResponse(c, outcome) ==
    /\ ~EffectDue
    /\ c \in calls /\ c.pc = "mailbox"
    /\ outcome # Ok => RefetchFits
    /\ lastEvent' = Event(c, outcome)
    /\ calls' = calls \ {c}
    /\ pageLoading' = IF pageMounted THEN FALSE ELSE pageLoading
    /\ IF outcome = Ok
       THEN /\ mailbox' = IF pageMounted THEN "loaded" ELSE mailbox
            /\ UNCHANGED <<pageError, timers>>
       ELSE IF mailboxNotFound(outcome)
       THEN /\ pageError' =
                  IF pageMounted THEN t("mailbox.invalidAddress") ELSE pageError
            /\ timers' = resetTimer(timers, PageErrorRef, "navigate", ErrorDelay)
            /\ UNCHANGED mailbox
       ELSE /\ pageError' = IF pageMounted THEN RawError(outcome) ELSE pageError
            /\ timers' = resetTimer(timers, PageErrorRef, "clearError", ErrorDelay)
            /\ UNCHANGED mailbox
    /\ UNCHANGED <<rvars, pageMounted, pageSuccess, selectedEmail, dInst, dvars,
                   emailCache>>
    /\ effectPending' = Runs(DetailMounted /\ (outcome = Ok \/ PageStateChanges))

\* MailboxInfo's onDelete (rendered once the mailbox is loaded):
\* handleDeleteMailbox up to its await
StartDeleteMailbox ==
    /\ pageMounted /\ ~EffectDue /\ HasRoom
    /\ mailbox # None
    /\ calls' = calls \cup {NewCall("handleDeleteMailbox", "deleteMailbox", None, 0)}
    /\ lastEvent' = NoEvent
    /\ UNCHANGED <<rvars, pvars, selectedEmail, dInst, dvars, effectPending,
                   emailCache, timers>>

\* the response to DELETE /api/mailboxes/{address} arrives
DeleteMailboxResponse(c, outcome) ==
    /\ ~EffectDue
    /\ c \in calls /\ c.pc = "deleteMailbox"
    /\ RefetchFits
    /\ lastEvent' = Event(c, outcome)
    /\ calls' = calls \ {c}
    /\ IF outcome = Ok
       THEN /\ pageSuccess' =
                  IF pageMounted THEN t("mailbox.deleteSuccess") ELSE pageSuccess
            /\ timers' = resetTimer(timers, PageSuccessRef, "navigate", SuccessDelay)
            /\ UNCHANGED pageError
       ELSE /\ pageError' =
                  IF pageMounted THEN t("mailbox.deleteFailed") ELSE pageError
            /\ timers' = resetTimer(timers, PageErrorRef, "clearError", ErrorDelay)
            /\ UNCHANGED pageSuccess
    /\ UNCHANGED <<rvars, pageMounted, mailbox, pageLoading, selectedEmail, dInst,
                   dvars, emailCache>>
    /\ effectPending' = Runs(DetailMounted /\ PageStateChanges)

(***************************************************************************)
(* Timers                                                                  *)
(***************************************************************************)
Pending(r) == r \in PendingTimers

\* the callback of the timer held by ref r runs
FireTimer(r) ==
    /\ ~EffectDue
    /\ Pending(r) /\ timers[r].left = 0
    /\ lastEvent' = NoEvent
    /\ LET tm == [timers EXCEPT ![r] = NoTimer] IN
       IF timers[r].kind = "clearError"
       THEN \* setErrorMessage(null)
            /\ timers' = tm
            /\ errorMessage' =
                  IF r.owner = "detail" /\ DetailLive(r.inst) THEN Null ELSE errorMessage
            /\ pageError' =
                  IF r.owner = "page" /\ pageMounted THEN Null ELSE pageError
            /\ effectPending' = Runs(DetailMounted /\ pageError' # pageError)
            /\ UNCHANGED <<pageMounted, selectedEmail, email, attList, isLoading,
                           isLoadingAttachments, successMessage>>
       ELSE IF timers[r].kind = "close"
       THEN \* onClose()
            /\ OnClose(tm)
            /\ UNCHANGED <<pageMounted, pageError>>
       ELSE \* navigate('/'): the route changes and the page unmounts
            /\ IF pageMounted
               THEN PageUnmounts(tm)
               ELSE /\ timers' = tm
                    /\ UNCHANGED <<pageMounted, selectedEmail, dvars, effectPending>>
            /\ UNCHANGED pageError
    /\ UNCHANGED <<rvars, mailbox, pageLoading, pageSuccess, dInst, emailCache, calls>>

\* a second passes: no timer is overdue
Tick ==
    /\ ~EffectDue
    /\ \E r \in TimerRefs : Pending(r)
    /\ \A r \in TimerRefs : Pending(r) => timers[r].left > 0
    /\ timers' = [r \in TimerRefs |->
                    IF Pending(r) THEN [timers[r] EXCEPT !.left = @ - 1]
                    ELSE timers[r]]
    /\ lastEvent' = NoEvent
    /\ UNCHANGED <<rvars, pvars, selectedEmail, dInst, dvars, effectPending,
                   emailCache, calls>>

UNext ==
    \/ \E id \in EmailIds : SelectEmail(id)
    \/ ParentRerender
    \/ LeavePage
    \/ RunEffect
    \/ \E c \in calls, o \in Outcomes : EmailResponse(c, o)
    \/ \E c \in calls, o \in Outcomes :
           \E list \in AttachmentLists(c.id) : AttachmentsResponse(c, o, list)
    \/ \E c \in calls : RecoveryDone(c)
    \/ \E c \in calls, cleared \in BOOLEAN : RecoveryRejected(c, cleared)
    \/ StartDelete
    \/ \E c \in calls, o \in Outcomes : DeleteResponse(c, o)
    \/ ChangeAddress
    \/ \E c \in calls, o \in Outcomes : MailboxResponse(c, o)
    \/ StartDeleteMailbox
    \/ \E c \in calls, o \in Outcomes : DeleteMailboxResponse(c, o)
    \/ \E r \in TimerRefs : FireTimer(r)
    \/ Tick

\* MailboxPage and its EmailDetail
Pages == UInit /\ [][UNext]_vars

(***************************************************************************)
(* The inputs of the resolver                                              *)
(***************************************************************************)
\* <img src="cid:logo.png">
ImgCidFile ==
    <<"<","i","m","g"," ","s","r","c","=","\"","c","i","d",":","l","o","g","o",".","p","n","g","\"",">">>
\* <img SRC='cid:logo.png'>
ImgUpperSrc ==
    <<"<","i","m","g"," ","S","R","C","=","'","c","i","d",":","l","o","g","o",".","p","n","g","'",">">>
\* <IMG src='CID:logo'>
ImgCidStem ==
    <<"<","I","M","G"," ","s","r","c","=","'","C","I","D",":","l","o","g","o","'",">">>
\* <img src="cid:Logo.v2">
ImgCidMulti ==
    <<"<","i","m","g"," ","s","r","c","=","\"","c","i","d",":","L","o","g","o",".","v","2","\"",">">>
\* cid:logo.png
TokPlain ==
    <<"c","i","d",":","l","o","g","o",".","p","n","g">>
\* cid:"logo.png" CID:'LOGO.png'
TokQuoted ==
    <<"c","i","d",":","\"","l","o","g","o",".","p","n","g","\""," ","C","I","D",":","'","L","O","G","O",".","p","n","g","'">>
\* logo.png
BareFile ==
    <<"l","o","g","o",".","p","n","g">>
\* <a href="cid:logo.png">
AnchorCid ==
    <<"<","a"," ","h","r","e","f","=","\"","c","i","d",":","l","o","g","o",".","p","n","g","\"",">">>
\*  > 
TextGt ==
    <<" ",">"," ">>
\* cid:a+b.png
TokPlus ==
    <<"c","i","d",":","a","+","b",".","p","n","g">>
\* cid:aab.png
TokNearPlus ==
    <<"c","i","d",":","a","a","b",".","p","n","g">>
\* cid:"a+bxpng"
TokNearDot ==
    <<"c","i","d",":","\"","a","+","b","x","p","n","g","\"">>
\* CID:A(B.PNG
TokParen ==
    <<"C","I","D",":","A","(","B",".","P","N","G">>
\* <img src="cid:a+b">
ImgCidPlus ==
    <<"<","i","m","g"," ","s","r","c","=","\"","c","i","d",":","a","+","b","\"",">">>
\* <p>
ParaOpen ==
    <<"<","p",">">>
\* <img src="cid:é.png">
ImgCidAccent ==
    <<"<","i","m","g"," ","s","r","c","=","\"","c","i","d",":","é",".","p","n","g","\"",">">>

\* html fragments that refer to logo.png in the ways the resolver knows
HtmlParts ==
    {ImgCidFile,
     ImgUpperSrc,
     ImgCidStem,
     ImgCidMulti,
     TokPlain,
     TokQuoted,
     BareFile,
     AnchorCid,
     TextGt}

\* html fragments around file names that hold regular-expression
\* metacharacters
LiteralParts ==
    {TokPlus,
     TokNearPlus,
     TokNearDot,
     TokParen,
     ImgCidPlus,
     ParaOpen,
     ImgCidAccent}

\* logo.png
FileLogo == <<"l","o","g","o",".","p","n","g">>
\* Logo.v2.png
FileMulti ==
    <<"L","o","g","o",".","v","2",".","p","n","g">>
\* a+b.png
FilePlus == <<"a","+","b",".","p","n","g">>
\* a(b.png
FileParen == <<"a","(","b",".","p","n","g">>
\* aab.png
FilePlain == <<"a","a","b",".","p","n","g">>
\* image/png
MimePng == <<"i","m","a","g","e","/","p","n","g">>
\* application/pdf
MimePdf == <<"a","p","p","l","i","c","a","t","i","o","n","/","p","d","f">>
\* k1
IdK1 == <<"k","1">>
\* k3
IdK3 == <<"k","3">>
\* k4
IdK4 == <<"k","4">>
\* k6
IdK6 == <<"k","6">>
\* k7
IdK7 == <<"k","7">>
\* k8
IdK8 == <<"k","8">>
\* k9
IdK9 == <<"k","9">>
\* $& (an id the server chose with a dollar sign in it)
IdAmp == <<"$","&">>
\* É.png
FileAccent == <<"É",".","p","n","g">>

\* the fields of an Attachment that processHtmlContent reads
Att(id, filename, mimeType) ==
    [id |-> id, filename |-> filename, mimeType |-> mimeType]

AttachmentPool ==
    { Att(IdK1, FileLogo, MimePng),
      Att(IdK3, FileLogo, MimePdf),
      Att(IdK4, FileMulti, MimePng),
      Att(IdAmp, FileLogo, MimePng) }

LiteralPool ==
    { Att(IdK6, FilePlus, MimePng),
      Att(IdK7, FileParen, MimePng),
      Att(IdK8, FilePlain, MimePng),
      Att(IdK9, FileAccent, MimePng) }

\* the most parts an html body is made of
MaxParts == 2
\* the most attachments an email has
MaxAtts == 2

RECURSIVE Flatten(_)
Flatten(parts) ==
    IF parts = <<>> THEN <<>> ELSE Head(parts) \o Flatten(Tail(parts))

HtmlInputs(parts) ==
    {Flatten(ps) : ps \in UNION {[1..n -> parts] : n \in 0..MaxParts}}

\* attachment lists without repeated records (ids are unique)
AttachmentInputs(pool) ==
    {as \in UNION {[1..n -> pool] : n \in 0..MaxAtts} :
        \A i, j \in 1..Len(as) : i # j => as[i].id # as[j].id}

\* the email on show is the one with attachments; its attachment list is
\* the one the resolver is handed, empty or not
ShownWith(atts) ==
    EmailOnShow("e1", IF atts = <<>> THEN <<>> ELSE <<"e1">>)

RInit ==
    /\ htmlContent \in HtmlInputs(HtmlParts)
    /\ attachments \in AttachmentInputs(AttachmentPool)
    /\ rendered = NotRendered
    /\ ShownWith(attachments)

LInit ==
    /\ htmlContent \in HtmlInputs(LiteralParts)
    /\ attachments \in AttachmentInputs(LiteralPool)
    /\ rendered = NotRendered
    /\ ShownWith(attachments)

\* the render of the email body, once EmailDetail is past its spinner and
\* has an email (isLoading ? ... : email ? ...) whose htmlContent is not
\* empty (email.htmlContent ? ...): dangerouslySetInnerHTML={{ __html:
\* processHtmlContent(email.htmlContent, attachments) }}
Render ==
    /\ DetailMounted
    /\ ~isLoading
    /\ email # None
    /\ htmlContent # <<>>
    /\ rendered = NotRendered
    /\ rendered' = processHtmlContent(htmlContent, attachments)
    /\ UNCHANGED <<htmlContent, attachments, uvars>>

RNext == Render

\* the resolver on references to logo.png
Resolver == RInit /\ [][RNext]_vars

\* the resolver on file names that hold regular-expression metacharacters
LiteralNames == LInit /\ [][RNext]_vars

(***************************************************************************)
(* Vocabulary of the properties                                            *)
(***************************************************************************)
Contains(s, p) == \E i \in 1..(Len(s) - Len(p) + 1) : matchesAt(s, i, p)
ContainsCI(s, p) == \E i \in 1..(Len(s) - Len(p) + 1) : matchesAtCI(s, i, p)

Rendered == rendered # NotRendered

IsImage(att) == startsWith(att.mimeType, ImagePrefix)
ImageAtts == {attachments[i] : i \in {k \in 1..Len(attachments) : IsImage(attachments[k])}}

UrlOf(att) == getAttachmentUrl(att.id, TRUE)
SrcAttrOf(att) == SrcEq \o <<"\"">> \o UrlOf(att) \o <<"\"">>

\* the <img ...> tags of s
ImgTagsOf(s) ==
    {SubSeq(s, i, imgTagEnd(s, i)) : i \in {k \in 1..Len(s) : imgTagEnd(s, k) # 0}}

\* the value of the src attribute of a tag, however the attribute name is
\* cased and whichever quotes are used; <<>> when the tag has none
SrcValueOf(tag) ==
    LET p == srcMatchStart(tag, TRUE) IN
    IF p = 0 THEN <<>> ELSE SubSeq(tag, p + 5, srcMatchEnd(tag, p, TRUE) - 1)

HasCidSrc(tag) == startsWith(toLowerCase(SrcValueOf(tag)), CidPrefix)
CidValueOf(tag) == substring(SrcValueOf(tag), 4)

\* position p of s lies inside a tag: a '<' before it is not yet closed
InsideTag(s, p) ==
    \E q \in 1..(p - 1) : s[q] = "<" /\ \A k \in (q + 1)..(p - 1) : s[k] # ">"

(***************************************************************************)
(* C1                                                                      *)
(***************************************************************************)
\* C1 (as claimed): every <img> tag whose src is cid:X, with X the file
\* name, the id or the case-insensitive file name of an image attachment,
\* comes out with its src replaced by that attachment's URL, however the
\* attribute name is cased and quoted.
C1_CidTagResolved ==
    Rendered =>
        \A tag \in ImgTagsOf(htmlContent) :
            LET c == CidValueOf(tag)
                named == {a \in ImageAtts :
                             \/ c = a.filename
                             \/ c = a.id
                             \/ toLowerCase(c) = toLowerCase(a.filename)}
            IN  (HasCidSrc(tag) /\ named # {}) =>
                    \E a \in named : Contains(rendered, SrcAttrOf(a))

(***************************************************************************)
(* C2                                                                      *)
(***************************************************************************)
\* C2: processHtmlContent returns its html argument unchanged whenever the
\* html is empty or the attachment list is empty, and so an email body
\* rendered with no attachments is put into the DOM as it came.  (The
\* render never hands processHtmlContent an empty html, so that case is
\* the function applied to the inputs of the state.)
C2_EmptyInputUnchanged ==
    /\ (htmlContent = <<>> \/ attachments = <<>>) =>
           processHtmlContent(htmlContent, attachments) = htmlContent
    /\ (Rendered /\ attachments = <<>>) => rendered = htmlContent

\* an html that holds cid references was rendered with no attachments
C2_Witness ==
    /\ Rendered
    /\ attachments = <<>>
    /\ ContainsCI(htmlContent, CidPrefix)
    /\ ImgTagsOf(htmlContent) # {}
    /\ rendered = htmlContent

(***************************************************************************)
(* C3                                                                      *)
(***************************************************************************)
\* a bare occurrence of name at position p of s: outside any tag and not
\* the name of a cid reference
BareOccurrence(s, p, name) ==
    /\ matchesAt(s, p, name)
    /\ ~InsideTag(s, p)
    /\ ~followedByTagClose(s, p + Len(name))
    /\ ~matchesAtCI(s, p - 4, CidPrefix)
    /\ ~matchesAtCI(s, p - 5, CidPrefix)

HasBareOccurrence(s, name) == \E p \in 1..Len(s) : BareOccurrence(s, p, name)

\* C3 (as claimed): a bare-text occurrence of an image attachment's file
\* name outside any tag is wrapped into a new <img> tag whose src is the
\* attachment's URL.
C3_BareNameWrapped ==
    Rendered =>
        \A a \in ImageAtts :
            HasBareOccurrence(htmlContent, a.filename) =>
                \E b \in ImageAtts : Contains(rendered, SrcAttrOf(b))

(***************************************************************************)
(* C4                                                                      *)
(***************************************************************************)
\* a file name without its extension: the text before the last dot
WithoutExtension(name) ==
    LET dots == {i \in 1..Len(name) : name[i] = "."} IN
    IF dots = {} THEN name
    ELSE SubSeq(name, 1, (CHOOSE i \in dots : \A j \in dots : j <= i) - 1)

\* the image attachment a reference by the full file name resolves to
ResolvedByFullName(name) ==
    imageAttachmentsOf(attachments)[findIndex(imageAttachmentsOf(attachments), name)]

\* C4 (as claimed): an <img> whose src is cid: followed by an image
\* attachment's file name without its extension resolves to the attachment
\* the full file name resolves to, also for a file name with several dots.
C4_StemResolvesLikeFullName ==
    Rendered =>
        \A tag \in ImgTagsOf(htmlContent) :
            \A a \in ImageAtts :
                (/\ HasCidSrc(tag)
                 /\ srcMatchStart(tag, FALSE) # 0
                 /\ CidValueOf(tag) = WithoutExtension(a.filename)) =>
                    Contains(rendered, SrcAttrOf(ResolvedByFullName(a.filename)))

(***************************************************************************)
(* C5                                                                      *)
(***************************************************************************)
\* C5: a tag whose cid value matches no image attachment is left as it
\* was, with no image attachment at all the html is left as it was, and
\* the URL of a non-image attachment never appears in the output.
C5_OnlyImageAttachmentsResolve ==
    Rendered =>
        /\ \A tag \in ImgTagsOf(htmlContent) :
               (~HasCidSrc(tag)
                  \/ \A a \in ImageAtts : ~cidMatches(CidValueOf(tag), a)) =>
                   Contains(rendered, tag)
        /\ (ImageAtts = {}) => rendered = htmlContent
        /\ \A i \in 1..Len(attachments) :
               ~IsImage(attachments[i]) =>
                   ~Contains(rendered, ApiAttachmentsPath \o attachments[i].id)

\* a tag that names a non-image attachment went through the resolver next
\* to an image attachment and was left alone
C5_Witness ==
    /\ Rendered
    /\ \E i, j \in 1..Len(attachments) :
           /\ ~IsImage(attachments[i])
           /\ IsImage(attachments[j])
           /\ \E tag \in ImgTagsOf(htmlContent) :
                  /\ HasCidSrc(tag)
                  /\ cidMatches(CidValueOf(tag), attachments[i])
                  /\ ~cidMatches(CidValueOf(tag), attachments[j])
                  /\ Contains(rendered, tag)
    /\ \A a \in ImageAtts : ~Contains(rendered, UrlOf(a))

(***************************************************************************)
(* C6                                                                      *)
(***************************************************************************)
\* a cid token for name (plain or quoted, any letter case) stands at
\* position p of s
CidTokenAt(s, p, name) ==
    \/ matchesAtCI(s, p, CidPrefix \o name)
    \/ matchesAtCI(s, p, CidPrefix \o <<"\"">> \o name \o <<"\"">>)
    \/ matchesAtCI(s, p, CidPrefix \o <<"'">> \o name \o <<"'">>)

\* image attachment number j (in list order) is the first-listed image
\* attachment that matches some reference of the html
FirstListedForSomeReference(j) ==
    LET imgs == imageAttachmentsOf(attachments) IN
    \/ \E tag \in ImgTagsOf(htmlContent) :
           /\ HasCidSrc(tag)
           /\ cidMatches(CidValueOf(tag), imgs[j])
           /\ \A i \in 1..(j - 1) : ~cidMatches(CidValueOf(tag), imgs[i])
    \/ /\ \E p \in 1..Len(htmlContent) : CidTokenAt(htmlContent, p, imgs[j].filename)
       /\ \A i \in 1..(j - 1) :
              toLowerCase(imgs[i].filename) # toLowerCase(imgs[j].filename)

\* C6: when several image attachments match a reference, the first-listed
\* one is used: an attachment's URL appears in the output only if it is the
\* first-listed match of some reference, in the tag pass and in the token
\* pass.
C6_FirstListedWins ==
    Rendered =>
        \A j \in 1..Len(imageAttachmentsOf(attachments)) :
            Contains(rendered, UrlOf(imageAttachmentsOf(attachments)[j])) =>
                FirstListedForSomeReference(j)

(***************************************************************************)
(* C7                                                                      *)
(***************************************************************************)
\* C7 (as claimed): every cid:<filename> token of an image attachment that
\* lies outside any tag (plain or quoted) is replaced by the attachment's
\* URL: none is left in the output.
C7_TokensOutsideTagsReplaced ==
    Rendered =>
        \A a \in ImageAtts :
            (\E p \in 1..Len(htmlContent) :
                /\ CidTokenAt(htmlContent, p, a.filename)
                /\ ~InsideTag(htmlContent, p)
                /\ \A q \in 1..Len(htmlContent) : htmlContent[q] # "<") =>
                    \A p \in 1..Len(rendered) : ~CidTokenAt(rendered, p, a.filename)

(***************************************************************************)
(* C8                                                                      *)
(***************************************************************************)
HasSpecial(name) == \E i \in 1..Len(name) : name[i] \in RegExpSpecials

\* the text of a file name before its first dot (all of it without a dot)
BeforeFirstDot(name) ==
    LET dots == {i \in 1..Len(name) : name[i] = "."} IN
    IF dots = {} THEN name
    ELSE SubSeq(name, 1, (CHOOSE i \in dots : \A j \in dots : i <= j) - 1)

SameUpToCase(x, y) == toLowerCase(x) = toLowerCase(y)

\* the html holds text equal to the file name of a, character for
\* character up to letter case, as a reference: after cid: in a token
\* (plain or quoted), or as the whole cid value of the src of an <img> tag
SpelledOut(a) ==
    \/ \E p \in 1..Len(htmlContent) : CidTokenAt(htmlContent, p, a.filename)
    \/ \E tag \in ImgTagsOf(htmlContent) :
           HasCidSrc(tag) /\ SameUpToCase(CidValueOf(tag), a.filename)

\* the src of an <img> tag of the html is cid: followed by the id of a, or
\* by the file name of a up to its first dot (up to letter case)
NamedInImgSrc(a) ==
    \E tag \in ImgTagsOf(htmlContent) :
        /\ HasCidSrc(tag)
        /\ \/ CidValueOf(tag) = a.id
           \/ SameUpToCase(CidValueOf(tag), BeforeFirstDot(a.filename))

\* C8 (as claimed): with file names that hold regular-expression
\* metacharacters the call does not throw, and only text equal to the file
\* name character for character (up to letter case) is treated as a
\* reference: the attachment's URL is put only where the html spells the
\* file name out.
C8_OnlyTheFileNameItself ==
    Rendered =>
        /\ rendered # SyntaxError
        /\ \A a \in ImageAtts :
               (HasSpecial(a.filename) /\ Contains(rendered, UrlOf(a))) =>
                   SpelledOut(a)

\* C8 (amended): with file names that hold regular-expression
\* metacharacters the call does not throw and no character of the file
\* name acts as a pattern operator: the attachment's URL is put only where
\* the html spells the file name out or where the src of an <img> tag is
\* cid: followed by the attachment's id or by the file name up to its
\* first dot.
C8_MetacharactersLiteral ==
    Rendered =>
        /\ rendered # SyntaxError
        /\ \A a \in ImageAtts :
               (HasSpecial(a.filename) /\ Contains(rendered, UrlOf(a))) =>
                   SpelledOut(a) \/ NamedInImgSrc(a)

\* a + in a file name, a token that spells it, a near miss next to it:
\* only the literal token was replaced
C8_Witness ==
    /\ Rendered
    /\ \E a \in ImageAtts :
           /\ Contains(a.filename, <<"+">>)
           /\ \E p \in 1..Len(htmlContent) : CidTokenAt(htmlContent, p, a.filename)
           /\ Contains(rendered, UrlOf(a))
           /\ ~ContainsCI(rendered, CidPrefix \o a.filename)
    /\ Contains(htmlContent, TokNearPlus)
    /\ Contains(rendered, TokNearPlus)

(***************************************************************************)
(* Error handling of the pages' requests                                   *)
(***************************************************************************)
EmailLookups == {"fetchEmail", "fetchAttachments"}
Lookups == EmailLookups \cup {"fetchMailbox"}
PageRequests == {"fetchMailbox", "handleDeleteMailbox"}

\* the message is the result of a translation key
IsLocalized(m) == m[1] = "t"

\* this step handled a 404 that came back to one of the functions fns of
\* a mounted component
NotFoundHandled(fns) ==
    /\ lastEvent'.outcome = NotFound
    /\ lastEvent'.fn \in fns
    /\ lastEvent'.live

\* this step set no error message and no timer, and started the recovery
\* flow: handleMailboxNotFound() is awaited by the function that got the 404
RecoveryStarted ==
    /\ errorMessage' = errorMessage
    /\ pageError' = pageError
    /\ timers' = timers
    /\ \E c \in calls' \ calls : c.pc = "recovery" /\ c.fn = lastEvent'.fn

\* this step settled the handleMailboxNotFound() that the call c awaited
RecoverySettled(c) == c \in calls /\ c.pc = "recovery" /\ c \notin calls'

\* C9 (as claimed): a 404 that comes back to an email lookup, an
\* attachment-list lookup or a mailbox lookup never sets an error message
\* and starts the recovery flow, and once handleMailboxNotFound has settled
\* the detail view is closed with no error message set.
C9_NotFoundNeverAnError ==
    [][ /\ NotFoundHandled(Lookups) => RecoveryStarted
        /\ \A c \in calls :
               RecoverySettled(c) =>
                   /\ selectedEmail' = None
                   /\ errorMessage' \in {errorMessage, Null}
                   /\ pageError' = pageError
      ]_vars

\* C10: a failure other than a 404 of a request of a mounted component
\* leaves that component's error message set to a translated message, never
\* to the raw error text and never to nothing.
C10_FailuresSetLocalizedError ==
    (lastEvent.outcome \in Failures /\ lastEvent.live) =>
        IF lastEvent.fn \in PageRequests
        THEN IsLocalized(pageError)
        ELSE IsLocalized(errorMessage)

(***************************************************************************)
(* Transient notifications                                                 *)
(***************************************************************************)
\* the functions whose catch block sets an error message
DetailErrorSetters == {"fetchEmail", "handleDelete"}

\* this step ran the catch block of a request of the mounted EmailDetail
DetailErrorSet ==
    /\ lastEvent'.live
    /\ \/ lastEvent'.fn = "fetchEmail" /\ lastEvent'.outcome \in Failures
       \/ lastEvent'.fn = "fetchEmail" /\ lastEvent'.outcome = Rejected
       \/ lastEvent'.fn = "handleDelete" /\ lastEvent'.outcome # Ok

\* this step set an error message of the mounted MailboxPage: a catch
\* block ran, or the 404 branch of fetchMailbox
PageErrorSet ==
    /\ lastEvent'.live
    /\ lastEvent'.fn \in PageRequests
    /\ lastEvent'.outcome # Ok

\* the timer tm' is tm, or tm one second later
CountsDown(tm1, tm2) ==
    \/ tm2 = tm1
    \/ tm1.left > 0 /\ tm2 = [tm1 EXCEPT !.left = @ - 1]

\* the same EmailDetail instance is mounted before and after this step
DetailStays == DetailMounted /\ DetailMounted' /\ dInst' = dInst

\* an error message of a failed request is on show together with the one
\* timer that will clear it
C11_ErrorHasItsTimer ==
    /\ (DetailMounted /\ errorMessage # Null) =>
           timers[DetailErrorRef(dInst)].kind = "clearError"
    /\ (pageMounted /\ pageError # Null) =>
           timers[PageErrorRef].kind =
               IF pageError = t("mailbox.invalidAddress")
               THEN "navigate" ELSE "clearError"

\* a catch block sets the message and restarts the timer of its component at
\* ErrorDelay; while the message stays the timer only counts down; when the
\* timer fires the message is cleared
C11_Step ==
    /\ DetailErrorSet =>
           /\ errorMessage' # Null
           /\ timers'[DetailErrorRef(dInst)] = Timer("clearError", ErrorDelay)
    /\ PageErrorSet =>
           /\ pageError' # Null
           /\ timers'[PageErrorRef].left = ErrorDelay
    /\ (DetailStays /\ ~DetailErrorSet /\ errorMessage # Null /\ errorMessage' # Null) =>
           CountsDown(timers[DetailErrorRef(dInst)], timers'[DetailErrorRef(dInst)])
    /\ (pageMounted /\ pageMounted' /\ ~PageErrorSet
           /\ pageError # Null /\ pageError' # Null) =>
           CountsDown(timers[PageErrorRef], timers'[PageErrorRef])
    /\ (DetailStays /\ ~DetailErrorSet
           /\ timers[DetailErrorRef(dInst)].kind = "clearError"
           /\ timers'[DetailErrorRef(dInst)] = NoTimer) =>
           /\ timers[DetailErrorRef(dInst)].left = 0
           /\ errorMessage' = Null
    /\ (pageMounted /\ pageMounted' /\ ~PageErrorSet
           /\ timers[PageErrorRef].kind = "clearError"
           /\ timers'[PageErrorRef] = NoTimer) =>
           /\ timers[PageErrorRef].left = 0
           /\ pageError' = Null

\* C11: while its component stays mounted, an error message set by a failed
\* request is cleared by the timer of the component's errorTimeoutRef
\* ErrorDelay seconds after the most recent error was set: every new error
\* restarts that one timer, so no earlier timer clears a later error early.
C11_ErrorsClearAfterDelay ==
    [](C11_ErrorHasItsTimer) /\ [][C11_Step]_vars

\* a failed delete of the shown email has just set its message and started
\* the timer of the mounted EmailDetail at ErrorDelay
C11_Witness ==
    /\ lastEvent.fn = "handleDelete" /\ lastEvent.outcome \in Failures
    /\ lastEvent.live /\ DetailMounted
    /\ errorMessage = t("email.deleteFailed")
    /\ timers[DetailErrorRef(dInst)] = Timer("clearError", ErrorDelay)

\* this step handled the successful response to a delete of the mounted
\* component
DeleteSucceeded(fn) ==
    /\ lastEvent'.fn = fn
    /\ lastEvent'.outcome = Ok
    /\ lastEvent'.live

\* during the window of a successful delete the success message is on show
C12_SuccessShownInWindow ==
    /\ (DetailMounted /\ timers[DetailSuccessRef(dInst)].kind = "close") =>
           successMessage = t("email.deleteSuccess")
    /\ (pageMounted /\ timers[PageSuccessRef].kind = "navigate") =>
           pageSuccess = t("mailbox.deleteSuccess")

\* a successful delete sets the message and starts the timer at SuccessDelay;
\* when the timer fires the detail view closes, or the page is left
C12_Step ==
    /\ DeleteSucceeded("handleDelete") =>
           /\ successMessage' = t("email.deleteSuccess")
           /\ timers'[DetailSuccessRef(dInst)].kind = "close"
           /\ timers'[DetailSuccessRef(dInst)].left = SuccessDelay
    /\ DeleteSucceeded("handleDeleteMailbox") =>
           /\ pageSuccess' = t("mailbox.deleteSuccess")
           /\ timers'[PageSuccessRef] = Timer("navigate", SuccessDelay)
    /\ (DetailMounted /\ timers[DetailSuccessRef(dInst)].kind = "close"
           /\ timers[DetailSuccessRef(dInst)].left = 0
           /\ timers'[DetailSuccessRef(dInst)] = NoTimer) =>
           selectedEmail' = None
    /\ (pageMounted /\ timers[PageSuccessRef].kind = "navigate"
           /\ timers[PageSuccessRef].left = 0
           /\ timers'[PageSuccessRef] = NoTimer) =>
           ~pageMounted'

\* C12: after a delete request succeeds the success message is set, it stays
\* on show for the whole window of SuccessDelay seconds, and at the end of
\* the window it is dismissed: the detail view closes (email delete) or the
\* page navigates to '/' (mailbox delete).
C12_SuccessShownThenDismissed ==
    [](C12_SuccessShownInWindow) /\ [][C12_Step]_vars

(***************************************************************************)
(* The email cache                                                         *)
(***************************************************************************)
\* the call whose response this step handled
Handled(c) == c \in calls /\ c \notin calls'

\* this step completed a fetch: the email without attachments has come
\* back, or the attachment list of an email with attachments has
FetchCompleted(c) ==
    /\ Handled(c)
    /\ lastEvent'.outcome = Ok
    /\ \/ c.pc = "email" /\ ~HasAttachments(c.id)
       \/ c.pc = "attachments"

\* the cache entry of a fetched email: the email of the id and the
\* attachment list that came with it
Fetched(id, list) == [email |-> id, attachments |-> list]

\* a completed fetch puts the email and the attachment list that the
\* response held (none for an email without attachments) in the cache
CompletedFetchIsCached ==
    \A c \in calls :
        FetchCompleted(c) => emailCache'[c.id] = Fetched(c.id, lastEvent'.data)

\* the fetch effect runs for an emailId that is in the cache: the email and
\* the attachments are taken from it, isLoading ends false, no request is
\* issued
CacheHitIssuesNoRequest ==
    (EffectDue /\ emailCache[selectedEmail] # NoEntry) =>
        /\ email' = emailCache[selectedEmail].email
        /\ attList' = emailCache[selectedEmail].attachments
        /\ isLoading' = FALSE
        /\ calls' = calls

\* the entry of id stays what it is, or is written anew by another
\* completed fetch of id
StaysCached(id) ==
    \/ emailCache'[id] = emailCache[id]
    \/ \E c \in calls : FetchCompleted(c) /\ c.id = id /\ emailCache'[id] # NoEntry

RecoveryEnded == lastEvent'.outcome \in {Recovered, Rejected}

DetailCalls == {c \in calls : c.inst # 0}

\* C14: whenever no request of EmailDetail is in flight, the email and the
\* attachments in its state are those of the current emailId, or none: a
\* response for an email selected before never stays on show under the
\* emailId selected after it.
C14_StateIsOfCurrentEmail ==
    (DetailMounted /\ effectPending = 0 /\ DetailCalls = {}) =>
        /\ email \in {None, selectedEmail}
        /\ attList \in AttachmentLists(selectedEmail)

\* the close timer of the mounted EmailDetail is due, and it is the only
\* close timer that is
CloseDue ==
    /\ DetailMounted
    /\ timers[DetailSuccessRef(dInst)].kind = "close"
    /\ timers[DetailSuccessRef(dInst)].left = 0
    /\ \A r \in TimerRefs \ {DetailSuccessRef(dInst)} :
           ~(timers[r].kind = "close" /\ timers[r].left = 0)

\* this step ran the callback of the close timer of the mounted EmailDetail
CloseFired ==
    /\ CloseDue
    /\ timers'[DetailSuccessRef(dInst)] = NoTimer
    /\ pageMounted'
    /\ lastEvent' = NoEvent

\* C15: the close that a successful delete of an email scheduled does not
\* close the detail view while another email is the selected one.
C15_CloseOnlyTheDeletedEmail ==
    [][(CloseFired /\ selectedEmail # timers[DetailSuccessRef(dInst)].id) =>
           selectedEmail' = selectedEmail]_vars

(***************************************************************************)
(* Timers and unmounting                                                   *)
(***************************************************************************)
\* the component whose ref r is, is mounted
OwnerMounted(r) ==
    IF r.owner = "page" THEN pageMounted ELSE DetailLive(r.inst)

\* C16: a component that has unmounted has no timer left and gets none
\* later, so no callback that it scheduled runs after the unmount.
C16_NoTimerAfterUnmount ==
    \A r \in TimerRefs : Pending(r) => OwnerMounted(r)

(***************************************************************************)
(* MailboxPage: the redirect after a failed lookup                         *)
(***************************************************************************)
\* the mounted page has answered a 404 of the lookup and the redirect to
\* '/' is scheduled
NavigateScheduled ==
    pageMounted /\ timers[PageErrorRef].kind = "navigate"

\* the lookup has just been answered by another 404
LookupNotFoundAgain ==
    lastEvent'.fn = "fetchMailbox" /\ mailboxNotFound(lastEvent'.outcome)

\* C17: once the lookup of the mailbox was answered by a 404 the redirect to
\* '/' stays scheduled while the page is mounted, counting down from 3
\* seconds, whatever other request completes or fails meanwhile.
C17_RedirectStaysScheduled ==
    [][(NavigateScheduled /\ pageMounted') =>
          /\ timers'[PageErrorRef].kind = "navigate"
          /\ \/ timers'[PageErrorRef].left <= timers[PageErrorRef].left
             \/ LookupNotFoundAgain]_vars

(***************************************************************************)
(* The entries of the email cache                                          *)
(***************************************************************************)
\* every entry of the cache holds the email of its key and a list of that
\* email's attachments
CacheEntriesAreTheServers ==
    \A id \in EmailIds :
        \/ emailCache[id] = NoEntry
        \/ /\ emailCache[id].email = id
           /\ emailCache[id].attachments \in AttachmentLists(id)

\* an entry holds the empty attachment list only for an email whose
\* hasAttachments is false
EmptyListOnlyWithoutAttachments ==
    \A id \in EmailIds :
        (emailCache[id] # NoEntry /\ emailCache[id].attachments = <<>>) =>
            ~HasAttachments(id)

\* the step wrote the entry of id: a request for id was answered
\* successfully, the attachment request if the email has attachments, and
\* the entry holds the attachment list that the response held
WrittenBySuccess(id) ==
    \E c \in calls :
        /\ Handled(c) /\ c.id = id /\ c.inst # 0
        /\ lastEvent'.outcome = Ok
        /\ c.pc = IF HasAttachments(id) THEN "attachments" ELSE "email"
        /\ emailCache'[id] = Fetched(id, lastEvent'.data)

\* the step handled a failed email or attachment request
FetchFailed ==
    /\ lastEvent'.fn \in {"fetchEmail", "fetchAttachments"}
    /\ lastEvent'.outcome \in Failures \cup {NotFound}

C18_Step ==
    /\ FetchFailed => emailCache' = emailCache
    /\ CompletedFetchIsCached
    /\ \A id \in EmailIds :
          emailCache'[id] # emailCache[id] =>
              \/ WrittenBySuccess(id)
              \/ RecoveryEnded /\ emailCache' = invalidatedCache

\* C18 (as claimed): every cache entry is stored under the requested
\* emailId and holds the email returned and its attachment list, the empty
\* list only for an email whose hasAttachments is false; an email with
\* attachments is written only when its attachment list has been fetched,
\* and a failed email or attachment request writes nothing.
C18_EmptyListOnlyIfNoAttachments ==
    [](CacheEntriesAreTheServers /\ EmptyListOnlyWithoutAttachments)
        /\ [][C18_Step]_vars

\* C18 (amended): every cache entry is stored under the requested emailId
\* and holds the email returned and, for an email with attachments, the
\* attachment list that the attachment request returned, empty or not; an
\* email with attachments is written only when its attachment list has
\* been fetched, an email without attachments is written with the empty
\* list, and a failed email or attachment request writes nothing.
C18_CacheConsistency ==
    [](CacheEntriesAreTheServers) /\ [][C18_Step]_vars

\* both emails are cached, the one with attachments by an attachment
\* request that has just come back with an empty list
C18_Witness ==
    /\ emailCache["e1"] = Fetched("e1", <<>>)
    /\ emailCache["e2"] = Fetched("e2", <<>>)
    /\ lastEvent.fn = "fetchAttachments" /\ lastEvent.outcome = Ok
    /\ lastEvent.data = <<>>

====
